---- MODULE Spec2Model ----
(***************************************************************************)
(* Model of burn-import's type descriptors (crates/burn-import/src/burn/   *)
(* ty.rs): the validating constructors of TensorType, ScalarType,          *)
(* ShapeType and OtherType, the renderers ty() and the accessor            *)
(* Type::name.                                                             *)
(*                                                                         *)
(* A name is a sequence of one-character strings.  A TokenStream is the    *)
(* sequence of its tokens, each token a string; the bracket group of       *)
(* `[usize; N]` is written with its delimiters as tokens.  A panic is an   *)
(* outcome of the constructor call that made it and ends the run.          *)
(***************************************************************************)
EXTENDS Naturals, Sequences, FiniteSets, TLC

VARIABLES call, outcome, value, rendered, named

vars == <<call, outcome, value, rendered, named>>

-----------------------------------------------------------------------------
(* Bounds of the explored inputs.                                          *)

MaxLen == 2

MaxDim == 2

MaxShapeLen == 2

MaxRenders == 2

Alphabet == {"7", "3", "x", "_", "-"}

ShapeElems == {1, 4}

RECURSIVE SeqsUpTo(_, _)
SeqsUpTo(S, n) ==
    IF n = 0 THEN {<<>>}
    ELSE LET shorter == SeqsUpTo(S, n - 1)
         IN  shorter \cup {Append(s, x) : s \in {t \in shorter : Len(t) = n - 1}, x \in S}

Names == SeqsUpTo(Alphabet, MaxLen)

Dims == (0..MaxDim) \cup {12}

None == [some |-> FALSE, v |-> <<>>]

Some(x) == [some |-> TRUE, v |-> x]

Shapes == {None} \cup {Some(s) : s \in SeqsUpTo(ShapeElems, MaxShapeLen)}

TokenStreams ==
    { <<>>,
      <<"Vec", "<", "f32", ">">>,
      <<">", ";", "<">>,
      <<"Tensor", "<", "B", ",", "2", ">">> }

-----------------------------------------------------------------------------
(* The enums.                                                              *)

TensorKind == {"Int", "Float", "Bool"}

ScalarKind == {"Int32", "Int64", "Float32", "Float64", "Bool"}

-----------------------------------------------------------------------------
(* proc_macro2::Ident::new, which every constructor calls on the name it   *)
(* stores.  It panics unless the string is a legal identifier: not empty,  *)
(* not a number, first character '_' or XID_Start, the others              *)
(* XID_Continue.                                                           *)

AsciiDigits == {"0", "1", "2", "3", "4", "5", "6", "7", "8", "9"}

AsciiLetters ==
    {"a", "b", "c", "d", "e", "f", "g", "h", "i", "j", "k", "l", "m",
     "n", "o", "p", "q", "r", "s", "t", "u", "v", "w", "x", "y", "z",
     "A", "B", "C", "D", "E", "F", "G", "H", "I", "J", "K", "L", "M",
     "N", "O", "P", "Q", "R", "S", "T", "U", "V", "W", "X", "Y", "Z"}

is_ascii_digit(c) == c \in AsciiDigits

AllDigits(s) == \A i \in 1..Len(s) : is_ascii_digit(s[i])

is_ident_start(c) == c = "_" \/ c \in AsciiLetters

is_ident_continue(c) == c = "_" \/ c \in AsciiLetters \/ c \in AsciiDigits

IdentOk(s) ==
    /\ Len(s) > 0
    /\ ~AllDigits(s)
    /\ is_ident_start(s[1])
    /\ \A i \in 2..Len(s) : is_ident_continue(s[i])

-----------------------------------------------------------------------------
(* Results of a constructor call.                                          *)

NoValue == [tag |-> "None"]

NoCall == [fn |-> "none"]

Ok(v) == [outcome |-> "ok", value |-> v]

Panic(why) == [outcome |-> why, value |-> NoValue]

IdentNew(s, v) == IF IdentOk(s) THEN Ok(v) ELSE Panic("panic_ident")

-----------------------------------------------------------------------------
(* usize::to_tokens (crate::burn::ToTokens, defined outside ty.rs): the    *)
(* number as a literal numeric token, its decimal text.                    *)

DigitChar(d) ==
    CASE d = 0 -> "0" [] d = 1 -> "1" [] d = 2 -> "2" [] d = 3 -> "3"
      [] d = 4 -> "4" [] d = 5 -> "5" [] d = 6 -> "6" [] d = 7 -> "7"
      [] d = 8 -> "8" [] d = 9 -> "9"

RECURSIVE Decimal(_)
Decimal(n) == IF n < 10 THEN DigitChar(n) ELSE Decimal(n \div 10) \o DigitChar(n % 10)

UsizeToTokens(n) == <<Decimal(n)>>

-----------------------------------------------------------------------------
(* ScalarType                                                              *)

(* Faulty variant: ScalarType::new escaping a numeric name as TensorType does. *)
ScalarNewEscaping(name, kind) ==
    IF name = <<>> THEN Panic("panic_empty_name")
    ELSE LET formatted == IF AllDigits(name) THEN <<"_">> \o name ELSE name
         IN  IdentNew(formatted, [tag |-> "Scalar", name |-> formatted, kind |-> kind])

ScalarNew(name, kind) ==
    IF name = <<>> THEN Panic("panic_empty_name")
    ELSE IdentNew(name, [tag |-> "Scalar", name |-> name, kind |-> kind])

(* Faulty variant: the Int64 arm yielding the Int32 token. *)
ScalarTyInt64AsI32(scalar) ==
    CASE scalar.kind = "Int32" -> <<"i32">>
      [] scalar.kind = "Int64" -> <<"i32">>
      [] scalar.kind = "Float32" -> <<"f32">>
      [] scalar.kind = "Float64" -> <<"f64">>
      [] scalar.kind = "Bool" -> <<"bool">>

ScalarTy(scalar) ==
    CASE scalar.kind = "Int32" -> <<"i32">>
      [] scalar.kind = "Int64" -> <<"i64">>
      [] scalar.kind = "Float32" -> <<"f32">>
      [] scalar.kind = "Float64" -> <<"f64">>
      [] scalar.kind = "Bool" -> <<"bool">>

-----------------------------------------------------------------------------
(* ShapeType                                                               *)

(* Faulty variant: ShapeType::new rejecting rank 0 as TensorType::new does. *)
ShapeNewRankChecked(name, dim) ==
    IF name = <<>> THEN Panic("panic_empty_name")
    ELSE IF dim = 0 THEN Panic("panic_dim_zero")
    ELSE IdentNew(name, [tag |-> "Shape", name |-> name, dim |-> dim])

ShapeNew(name, dim) ==
    IF name = <<>> THEN Panic("panic_empty_name")
    ELSE IdentNew(name, [tag |-> "Shape", name |-> name, dim |-> dim])

(* Faulty variant: the array length left out. *)
ShapeTySlice(shape) == <<"[", "usize", "]">>

ShapeTy(shape) == <<"[", "usize", ";">> \o UsizeToTokens(shape.dim) \o <<"]">>

-----------------------------------------------------------------------------
(* TensorType                                                              *)

(* Faulty variant: the escape prepended without the all-digits test. *)
FormatNameAlways(name) == <<"_">> \o name

FormatName(name) == IF AllDigits(name) THEN <<"_">> \o name ELSE name

(* Faulty variant: the rank asserted before the name is checked. *)
TensorNewDimFirst(name, dim, kind, shape) ==
    IF dim = 0 THEN Panic("panic_dim_zero")
    ELSE IF name = <<>> THEN Panic("panic_empty_name")
    ELSE LET formatted_name == FormatName(name)
         IN  IdentNew(formatted_name,
                      [tag |-> "Tensor", name |-> formatted_name, dim |-> dim,
                       kind |-> kind, shape |-> shape])

(* Faulty variant: the assert_ne!(dim, 0) missing. *)
TensorNewNoDimCheck(name, dim, kind, shape) ==
    IF name = <<>> THEN Panic("panic_empty_name")
    ELSE LET formatted_name == FormatName(name)
         IN  IdentNew(formatted_name,
                      [tag |-> "Tensor", name |-> formatted_name, dim |-> dim,
                       kind |-> kind, shape |-> shape])

TensorNew(name, dim, kind, shape) ==
    IF name = <<>> THEN Panic("panic_empty_name")
    ELSE LET formatted_name == FormatName(name)
         IN  IF dim = 0 THEN Panic("panic_dim_zero")
             ELSE IdentNew(formatted_name,
                           [tag |-> "Tensor", name |-> formatted_name, dim |-> dim,
                            kind |-> kind, shape |-> shape])

TensorNewFloatWithShape(name, dim, shape) == TensorNew(name, dim, "Float", shape)

TensorNewFloat(name, dim) == TensorNewFloatWithShape(name, dim, None)

TensorNewIntWithShape(name, dim, shape) == TensorNew(name, dim, "Int", shape)

TensorNewInt(name, dim) == TensorNewIntWithShape(name, dim, None)

TensorNewBoolWithShape(name, dim, shape) == TensorNew(name, dim, "Bool", shape)

TensorNewBool(name, dim) == TensorNewBoolWithShape(name, dim, None)

(* Faulty variant: the Int and Bool arms exchanged. *)
TensorTyIntBoolSwapped(tensor) ==
    LET dim == UsizeToTokens(tensor.dim)
    IN  CASE tensor.kind = "Float" -> <<"Tensor", "<", "B", ",">> \o dim \o <<">">>
          [] tensor.kind = "Int" -> <<"Tensor", "<", "B", ",">> \o dim \o <<",", "Bool", ">">>
          [] tensor.kind = "Bool" -> <<"Tensor", "<", "B", ",">> \o dim \o <<",", "Int", ">">>

(* Faulty variant: the rank taken from the shape when one is present. *)
TensorTyRankFromShape(tensor) ==
    LET dim == UsizeToTokens(IF tensor.shape.some THEN Len(tensor.shape.v) ELSE tensor.dim)
    IN  CASE tensor.kind = "Float" -> <<"Tensor", "<", "B", ",">> \o dim \o <<">">>
          [] tensor.kind = "Int" -> <<"Tensor", "<", "B", ",">> \o dim \o <<",", "Int", ">">>
          [] tensor.kind = "Bool" -> <<"Tensor", "<", "B", ",">> \o dim \o <<",", "Bool", ">">>

TensorTy(tensor) ==
    LET dim == UsizeToTokens(tensor.dim)
    IN  CASE tensor.kind = "Float" -> <<"Tensor", "<", "B", ",">> \o dim \o <<">">>
          [] tensor.kind = "Int" -> <<"Tensor", "<", "B", ",">> \o dim \o <<",", "Int", ">">>
          [] tensor.kind = "Bool" -> <<"Tensor", "<", "B", ",">> \o dim \o <<",", "Bool", ">">>

-----------------------------------------------------------------------------
(* OtherType                                                               *)

OtherNew(name, tokens) ==
    IF name = <<>> THEN Panic("panic_empty_name")
    ELSE IdentNew(name, [tag |-> "Other", name |-> name, ty |-> tokens])

(* Faulty variant: the stored expression wrapped in parentheses. *)
OtherTyParenthesized(other) == <<"(">> \o other.ty \o <<")">>

OtherTy(other) == other.ty

-----------------------------------------------------------------------------
(* Type                                                                    *)

TypeName(t) == t.name

TypeTy(t) ==
    CASE t.tag = "Tensor" -> TensorTy(t)
      [] t.tag = "Scalar" -> ScalarTy(t)
      [] t.tag = "Shape" -> ShapeTy(t)
      [] t.tag = "Other" -> OtherTy(t)

-----------------------------------------------------------------------------
(* The caller: one constructor call, then reads of the descriptor.         *)

Init ==
    /\ call = NoCall
    /\ outcome = "idle"
    /\ value = NoValue
    /\ rendered = <<>>
    /\ named = None

NewTensor ==
    /\ outcome = "idle"
    /\ \E name \in Names, dim \in Dims, kind \in TensorKind, shape \in Shapes :
          LET r == TensorNew(name, dim, kind, shape)
          IN  /\ call' = [fn |-> "TensorType::new", name |-> name, dim |-> dim,
                       kind |-> kind, shape |-> shape]
              /\ outcome' = r.outcome
              /\ value' = r.value
    /\ UNCHANGED <<rendered, named>>

NewFloat ==
    /\ outcome = "idle"
    /\ \E name \in Names, dim \in Dims :
          LET r == TensorNewFloat(name, dim)
          IN  /\ call' = [fn |-> "TensorType::new_float", name |-> name, dim |-> dim]
              /\ outcome' = r.outcome
              /\ value' = r.value
    /\ UNCHANGED <<rendered, named>>

NewFloatWithShape ==
    /\ outcome = "idle"
    /\ \E name \in Names, dim \in Dims, shape \in Shapes :
          LET r == TensorNewFloatWithShape(name, dim, shape)
          IN  /\ call' = [fn |-> "TensorType::new_float_with_shape", name |-> name,
                       dim |-> dim, shape |-> shape]
              /\ outcome' = r.outcome
              /\ value' = r.value
    /\ UNCHANGED <<rendered, named>>

NewInt ==
    /\ outcome = "idle"
    /\ \E name \in Names, dim \in Dims :
          LET r == TensorNewInt(name, dim)
          IN  /\ call' = [fn |-> "TensorType::new_int", name |-> name, dim |-> dim]
              /\ outcome' = r.outcome
              /\ value' = r.value
    /\ UNCHANGED <<rendered, named>>

NewIntWithShape ==
    /\ outcome = "idle"
    /\ \E name \in Names, dim \in Dims, shape \in Shapes :
          LET r == TensorNewIntWithShape(name, dim, shape)
          IN  /\ call' = [fn |-> "TensorType::new_int_with_shape", name |-> name,
                       dim |-> dim, shape |-> shape]
              /\ outcome' = r.outcome
              /\ value' = r.value
    /\ UNCHANGED <<rendered, named>>

NewBool ==
    /\ outcome = "idle"
    /\ \E name \in Names, dim \in Dims :
          LET r == TensorNewBool(name, dim)
          IN  /\ call' = [fn |-> "TensorType::new_bool", name |-> name, dim |-> dim]
              /\ outcome' = r.outcome
              /\ value' = r.value
    /\ UNCHANGED <<rendered, named>>

NewBoolWithShape ==
    /\ outcome = "idle"
    /\ \E name \in Names, dim \in Dims, shape \in Shapes :
          LET r == TensorNewBoolWithShape(name, dim, shape)
          IN  /\ call' = [fn |-> "TensorType::new_bool_with_shape", name |-> name,
                       dim |-> dim, shape |-> shape]
              /\ outcome' = r.outcome
              /\ value' = r.value
    /\ UNCHANGED <<rendered, named>>

NewScalar ==
    /\ outcome = "idle"
    /\ \E name \in Names, kind \in ScalarKind :
          LET r == ScalarNew(name, kind)
          IN  /\ call' = [fn |-> "ScalarType::new", name |-> name, kind |-> kind]
              /\ outcome' = r.outcome
              /\ value' = r.value
    /\ UNCHANGED <<rendered, named>>

NewShape ==
    /\ outcome = "idle"
    /\ \E name \in Names, dim \in Dims :
          LET r == ShapeNew(name, dim)
          IN  /\ call' = [fn |-> "ShapeType::new", name |-> name, dim |-> dim]
              /\ outcome' = r.outcome
              /\ value' = r.value
    /\ UNCHANGED <<rendered, named>>

NewOther ==
    /\ outcome = "idle"
    /\ \E name \in Names, tokens \in TokenStreams :
          LET r == OtherNew(name, tokens)
          IN  /\ call' = [fn |-> "OtherType::new", name |-> name, tokens |-> tokens]
              /\ outcome' = r.outcome
              /\ value' = r.value
    /\ UNCHANGED <<rendered, named>>

CallTensorTy ==
    /\ outcome = "ok"
    /\ value.tag = "Tensor"
    /\ Len(rendered) < MaxRenders
    /\ rendered' = Append(rendered, [via |-> "TensorType::ty", tokens |-> TensorTy(value)])
    /\ UNCHANGED <<call, outcome, value, named>>

CallScalarTy ==
    /\ outcome = "ok"
    /\ value.tag = "Scalar"
    /\ Len(rendered) < MaxRenders
    /\ rendered' = Append(rendered, [via |-> "ScalarType::ty", tokens |-> ScalarTy(value)])
    /\ UNCHANGED <<call, outcome, value, named>>

CallShapeTy ==
    /\ outcome = "ok"
    /\ value.tag = "Shape"
    /\ Len(rendered) < MaxRenders
    /\ rendered' = Append(rendered, [via |-> "ShapeType::ty", tokens |-> ShapeTy(value)])
    /\ UNCHANGED <<call, outcome, value, named>>

CallOtherTy ==
    /\ outcome = "ok"
    /\ value.tag = "Other"
    /\ Len(rendered) < MaxRenders
    /\ rendered' = Append(rendered, [via |-> "OtherType::ty", tokens |-> OtherTy(value)])
    /\ UNCHANGED <<call, outcome, value, named>>

CallTypeTy ==
    /\ outcome = "ok"
    /\ Len(rendered) < MaxRenders
    /\ rendered' = Append(rendered, [via |-> "Type::ty", tokens |-> TypeTy(value)])
    /\ UNCHANGED <<call, outcome, value, named>>

CallTypeName ==
    /\ outcome = "ok"
    /\ ~named.some
    /\ named' = Some(TypeName(value))
    /\ UNCHANGED <<call, outcome, value, rendered>>

Next ==
    \/ NewTensor
    \/ NewFloat
    \/ NewFloatWithShape
    \/ NewInt
    \/ NewIntWithShape
    \/ NewBool
    \/ NewBoolWithShape
    \/ NewScalar
    \/ NewShape
    \/ NewOther
    \/ CallTensorTy
    \/ CallScalarTy
    \/ CallShapeTy
    \/ CallOtherTy
    \/ CallTypeTy
    \/ CallTypeName

Spec == Init /\ [][Next]_vars

-----------------------------------------------------------------------------
(* Vocabulary of the properties.                                           *)

ConvenienceFns ==
    {"TensorType::new_float", "TensorType::new_float_with_shape",
     "TensorType::new_int", "TensorType::new_int_with_shape",
     "TensorType::new_bool", "TensorType::new_bool_with_shape"}

WithShapeFns ==
    {"TensorType::new", "TensorType::new_float_with_shape",
     "TensorType::new_int_with_shape", "TensorType::new_bool_with_shape"}

TensorFns == ConvenienceFns \cup {"TensorType::new"}

PlainFns == {"ScalarType::new", "ShapeType::new", "OtherType::new"}

Panics == {"panic_empty_name", "panic_dim_zero", "panic_ident"}

Escaped(n) == <<"_">> \o n

RankLiteral(r) ==
    CASE r = 0 -> "0" [] r = 1 -> "1" [] r = 2 -> "2" [] r = 3 -> "3"
      [] r = 4 -> "4" [] r = 12 -> "12"

KindOfFn(fn) ==
    CASE fn \in {"TensorType::new_float", "TensorType::new_float_with_shape"} -> "Float"
      [] fn \in {"TensorType::new_int", "TensorType::new_int_with_shape"} -> "Int"
      [] fn \in {"TensorType::new_bool", "TensorType::new_bool_with_shape"} -> "Bool"

TensorExpr(placeholder, kind, r) ==
    CASE kind = "Float" -> <<"Tensor", "<", placeholder, ",", RankLiteral(r), ">">>
      [] kind = "Int" -> <<"Tensor", "<", placeholder, ",", RankLiteral(r), ",", "Int", ">">>
      [] kind = "Bool" -> <<"Tensor", "<", placeholder, ",", RankLiteral(r), ",", "Bool", ">">>

PrimitiveToken(kind) ==
    CASE kind = "Int32" -> "i32"
      [] kind = "Int64" -> "i64"
      [] kind = "Float32" -> "f32"
      [] kind = "Float64" -> "f64"
      [] kind = "Bool" -> "bool"

AllRendered(tokens) == \A i \in 1..Len(rendered) : rendered[i].tokens = tokens

Vias == {rendered[i].via : i \in 1..Len(rendered)}

-----------------------------------------------------------------------------
(* C1: whenever a tensor constructor, called with a non-empty name and a   *)
(* rank >= 1, returns a descriptor, the descriptor's name (the field and   *)
(* what Type::name returns) is the given name with '_' prepended when the  *)
(* given name is all decimal digits, and the given name unchanged          *)
(* otherwise.                                                              *)
C1_TensorNameNormalized ==
    (call.fn \in TensorFns /\ outcome = "ok") =>
        /\ call.name # <<>> /\ call.dim >= 1
        /\ value.name = IF \A i \in 1..Len(call.name) : call.name[i] \in AsciiDigits
                        THEN Escaped(call.name)
                        ELSE call.name
        /\ named.some => named.v = value.name

C1_Witness ==
    /\ call.fn = "TensorType::new_float"
    /\ call.name = <<"7">>
    /\ outcome = "ok"
    /\ value.name = <<"_", "7">>
    /\ named = Some(<<"_", "7">>)

(* C2 as stated: every convenience constructor returns a descriptor for    *)
(* every non-empty name and rank >= 1, and the descriptor renders as       *)
(* Tensor<Backend, r>, Tensor<Backend, r, Int> or Tensor<Backend, r, Bool>. *)
C2_AsStated ==
    (call.fn \in ConvenienceFns /\ call.name # <<>> /\ call.dim >= 1) =>
        /\ outcome = "ok"
        /\ AllRendered(TensorExpr("Backend", KindOfFn(call.fn), call.dim))

(* C2, amended: for every non-empty name and rank r >= 1 a convenience     *)
(* constructor returns a descriptor exactly when the normalized name is a  *)
(* legal identifier (otherwise Ident::new panics), and the descriptor      *)
(* renders as Tensor<B, r>, Tensor<B, r, Int> or Tensor<B, r, Bool> for    *)
(* Float, Int, Bool, with r a literal numeric token.                       *)
C2_ConvenienceRender ==
    (call.fn \in ConvenienceFns /\ call.name # <<>> /\ call.dim >= 1) =>
        /\ outcome = IF IdentOk(FormatName(call.name)) THEN "ok" ELSE "panic_ident"
        /\ outcome = "ok" =>
              /\ value.kind = KindOfFn(call.fn)
              /\ value.dim = call.dim
              /\ AllRendered(TensorExpr("B", KindOfFn(call.fn), call.dim))

C2_Witness ==
    /\ call.fn = "TensorType::new_int_with_shape"
    /\ call.name = <<"x">>
    /\ call.dim = 12
    /\ outcome = "ok"
    /\ Len(rendered) = 2
    /\ rendered[1] = [via |-> "TensorType::ty",
                      tokens |-> <<"Tensor", "<", "B", ",", "12", ",", "Int", ">">>]
    /\ rendered[2].via = "Type::ty"

(* C3 as stated: ScalarType::new, ShapeType::new and OtherType::new, given *)
(* a non-empty all-digit name, produce a descriptor whose name is that     *)
(* name.                                                                   *)
C3_AsStated ==
    (call.fn \in PlainFns /\ call.name # <<>> /\ AllDigits(call.name)) =>
        /\ outcome = "ok"
        /\ value.name = call.name

(* C3, amended: the numeric-name normalization does not apply to the       *)
(* Scalar, Shape and Other constructors: every descriptor they return      *)
(* carries the given name unchanged, never with a '_' prefix added, and    *)
(* given a non-empty all-digit name they return no descriptor at all,      *)
(* because Ident::new rejects a number, where a tensor constructor returns *)
(* the descriptor named '_' + n.                                           *)
C3_PlainNamesNotEscaped ==
    (call.fn \in PlainFns) =>
        /\ outcome = "ok" => (value.name = call.name /\ (named.some => named.v = call.name))
        /\ (call.name # <<>> /\ AllDigits(call.name)) =>
              (outcome = "panic_ident" /\ value = NoValue)

C3_Witness ==
    /\ call.fn = "ScalarType::new"
    /\ call.name = <<"7">>
    /\ outcome = "panic_ident"
    /\ value = NoValue

(* C4: every constructor given an empty name aborts with the empty-name    *)
(* failure and produces no descriptor, whatever its other arguments; a     *)
(* tensor constructor given an empty name and rank 0 fails with the        *)
(* empty-name failure, not the zero-rank one.                              *)
C4_EmptyNameFirst ==
    (call.fn # "none" /\ call.name = <<>>) =>
        (outcome = "panic_empty_name" /\ value = NoValue)

C4_Witness ==
    /\ call.fn = "TensorType::new"
    /\ call.name = <<>>
    /\ call.dim = 0
    /\ outcome = "panic_empty_name"
    /\ value = NoValue

(* C5: every tensor constructor given a non-empty name and rank 0 aborts   *)
(* with the zero-rank failure, for every element kind and shape, and       *)
(* every tensor descriptor a constructor returns has rank >= 1.            *)
C5_ZeroRankAborts ==
    /\ (call.fn \in TensorFns /\ call.name # <<>> /\ call.dim = 0) =>
          (outcome = "panic_dim_zero" /\ value = NoValue)
    /\ value.tag = "Tensor" => value.dim >= 1

C5_Witness ==
    /\ call.fn = "TensorType::new_bool_with_shape"
    /\ call.name = <<"x">>
    /\ call.dim = 0
    /\ call.shape = Some(<<>>)
    /\ outcome = "panic_dim_zero"

(* C6: a scalar descriptor renders as the primitive token of its kind      *)
(* (Int32 i32, Int64 i64, Float32 f32, Float64 f64, Bool bool), whatever   *)
(* its name, and scalars of distinct kinds render differently.             *)
C6_ScalarRender ==
    (call.fn = "ScalarType::new" /\ outcome = "ok") =>
        /\ AllRendered(<<PrimitiveToken(call.kind)>>)
        /\ \A n \in Names : ScalarTy([value EXCEPT !.name = n]) = <<PrimitiveToken(call.kind)>>
        /\ \A k \in ScalarKind \ {call.kind} :
              ScalarTy([value EXCEPT !.kind = k]) # ScalarTy(value)

C6_Witness ==
    /\ call.fn = "ScalarType::new"
    /\ call.kind = "Int64"
    /\ outcome = "ok"
    /\ Len(rendered) = 2
    /\ rendered[1] = [via |-> "ScalarType::ty", tokens |-> <<"i64">>]
    /\ rendered[2] = [via |-> "Type::ty", tokens |-> <<"i64">>]

(* C7: a shape descriptor built by ShapeType::new(name, r) with r >= 1     *)
(* renders as [usize; r], the length being the literal r, whatever the     *)
(* name.                                                                   *)
C7_ShapeRender ==
    (call.fn = "ShapeType::new" /\ outcome = "ok" /\ call.dim >= 1) =>
        /\ value.dim = call.dim
        /\ AllRendered(<<"[", "usize", ";", RankLiteral(call.dim), "]">>)
        /\ \A n \in Names :
              ShapeTy([value EXCEPT !.name = n])
                  = <<"[", "usize", ";", RankLiteral(call.dim), "]">>

C7_Witness ==
    /\ call.fn = "ShapeType::new"
    /\ call.dim = 12
    /\ outcome = "ok"
    /\ Len(rendered) = 2
    /\ rendered[1] = [via |-> "ShapeType::ty", tokens |-> <<"[", "usize", ";", "12", "]">>]
    /\ rendered[2].via = "Type::ty"

(* C8: a descriptor built by OtherType::new(name, expr) holds expr and     *)
(* every rendering of it, by OtherType::ty or by Type::ty, first or        *)
(* repeated, returns expr unchanged, an empty expr included.               *)
C8_OtherRender ==
    (call.fn = "OtherType::new" /\ outcome = "ok") =>
        /\ value.ty = call.tokens
        /\ AllRendered(call.tokens)

C8_Witness ==
    /\ call.fn = "OtherType::new"
    /\ call.tokens = <<">", ";", "<">>
    /\ outcome = "ok"
    /\ Len(rendered) = 2
    /\ rendered[1] = [via |-> "OtherType::ty", tokens |-> <<">", ";", "<">>]
    /\ rendered[2] = [via |-> "Type::ty", tokens |-> <<">", ";", "<">>]

(* C9: a tensor descriptor stores the shape its constructor was given,     *)
(* 'absent' for the constructors without a shape argument, and its         *)
(* rendering is that of every descriptor of the same rank and element      *)
(* kind with any other shape, of a length different from the rank          *)
(* included.                                                               *)
C9_ShapeAdvisory ==
    (call.fn \in TensorFns /\ outcome = "ok") =>
        /\ value.shape = IF call.fn \in WithShapeFns THEN call.shape ELSE None
        /\ \A s \in Shapes :
              /\ AllRendered(TensorTy([value EXCEPT !.shape = s]))
              /\ AllRendered(TypeTy([value EXCEPT !.shape = s]))

C9_Witness ==
    /\ call.fn = "TensorType::new_int_with_shape"
    /\ call.dim = 2
    /\ call.shape = Some(<<4>>)
    /\ outcome = "ok"
    /\ value.shape = call.shape
    /\ Len(value.shape.v) # value.dim
    /\ Len(rendered) = 2
    /\ Vias = {"TensorType::ty", "Type::ty"}

(* C10 as stated: ShapeType::new with any non-empty name and rank 0        *)
(* returns a shape descriptor of rank 0, which renders as [usize; 0].      *)
C10_AsStated ==
    (call.fn = "ShapeType::new" /\ call.name # <<>> /\ call.dim = 0) =>
        /\ outcome = "ok"
        /\ value.dim = 0
        /\ AllRendered(<<"[", "usize", ";", "0", "]">>)

(* C10, amended: ShapeType::new validates no rank: with rank 0 and a name  *)
(* that is a legal identifier it returns a shape descriptor of rank 0,     *)
(* which renders as [usize; 0]; the only failures of ShapeType::new are    *)
(* the empty name and a name Ident::new rejects, never the zero rank.      *)
C10_ShapeZeroRank ==
    (call.fn = "ShapeType::new" /\ call.dim = 0) =>
        /\ outcome # "panic_dim_zero"
        /\ (call.name # <<>> /\ IdentOk(call.name)) =>
              /\ outcome = "ok"
              /\ value.tag = "Shape"
              /\ value.dim = 0
              /\ AllRendered(<<"[", "usize", ";", "0", "]">>)

C10_Witness ==
    /\ call.fn = "ShapeType::new"
    /\ call.name = <<"x">>
    /\ call.dim = 0
    /\ outcome = "ok"
    /\ value.dim = 0
    /\ Len(rendered) = 2
    /\ rendered[1] = [via |-> "ShapeType::ty", tokens |-> <<"[", "usize", ";", "0", "]">>]
    /\ rendered[2].via = "Type::ty"

====
